---- MODULE Spec2Model ----
(***************************************************************************)
(* Model of src/fastapi_backend.py: the request handlers of the AI Study   *)
(* Assistant API, the process-wide session store study_sessions, and the   *)
(* offloaded collaborator calls each handler waits on with a timeout.      *)
(*                                                                         *)
(* The handlers are coroutines on one event loop: a handler runs without   *)
(* interruption from one await to the next.  Each action below is one such *)
(* uninterrupted piece of a handler.  A collaborator's outcome (a value,   *)
(* an exception, or no answer before the timeout) is a nondeterministic    *)
(* input of the action that resumes the handler.                           *)
(***************************************************************************)
EXTENDS Integers, Sequences, FiniteSets, TLC

(***************************************************************************)
(* Bounds of the model.                                                    *)
(***************************************************************************)
MaxInFlight == 2        \* requests that can be in progress at the same time
MaxAbandoned == 1       \* abandoned workers that can still be running

(***************************************************************************)
(* Values the program fixes.                                               *)
(***************************************************************************)
MaxFileSize == 50 * 1024 * 1024
MinWordCount == 10
SummaryMaxChars == 8000
FlashcardMaxChars == 6000
QuizMaxChars == 6000
ResearchMaxChars == 4000
VideoMaxChars == 3000
ResourceMaxChars == 3000
QuestionMaxChars == 6000
MinCards == 1
MaxCards == 20
MinQuestions == 1
MaxQuestions == 15
MaxPapers == 15
MaxVideos == 12
MaxResources == 15
BytesPerMB == 1024 * 1024

Slots == 1..MaxInFlight
SessionIds == {"default", "other"}

(***************************************************************************)
(* Strings are sequences of one-character strings.                         *)
(***************************************************************************)
Marker == <<".", ".", ".">>
Whitespace == {" ", "\t", "\n"}

Min(a, b) == IF a < b THEN a ELSE b
Max(a, b) == IF a > b THEN a ELSE b

\* str.lower() on the characters that occur in the modelled file names
LowerChar(c) ==
    CASE c = "P" -> "p"
      [] c = "D" -> "d"
      [] c = "F" -> "f"
      [] c = "A" -> "a"
      [] OTHER -> c

Lower(s) == [i \in 1..Len(s) |-> LowerChar(s[i])]

\* str.endswith(suffix)
EndsWith(s, suffix) ==
    /\ Len(s) >= Len(suffix)
    /\ SubSeq(s, Len(s) - Len(suffix) + 1, Len(s)) = suffix

\* str.startswith(prefix)
StartsWith(s, prefix) ==
    /\ Len(s) >= Len(prefix)
    /\ SubSeq(s, 1, Len(prefix)) = prefix

\* a variant of Blank that tests the string itself, without strip()
BlankEmptyOnly(s) == s = <<>>

\* not s.strip(): nothing is left of s once the whitespace at its ends is
\* stripped, which is to say that s has whitespace only
Blank(s) == \A i \in 1..Len(s) : s[i] \in Whitespace

\* len(str.split()): the number of maximal runs of non-whitespace characters
WordCount(s) ==
    Cardinality({i \in 1..Len(s) :
                    /\ s[i] \notin Whitespace
                    /\ (i = 1 \/ s[i - 1] \in Whitespace)})

\* text[:max_chars]
Prefix(text, max_chars) == SubSeq(text, 1, Min(Len(text), max_chars))

\* a variant of Truncate that also cuts a text of exactly max_chars
TruncateFromBudget(text, max_chars) ==
    IF Len(text) >= max_chars
    THEN Prefix(text, max_chars) \o Marker
    ELSE text

\* the truncation of generate_summary and of the other session-text handlers:
\*   if len(text) > max_chars: text = text[:max_chars] + "..."
Truncate(text, max_chars) ==
    IF Len(text) > max_chars
    THEN Prefix(text, max_chars) \o Marker
    ELSE text

\* the truncation of ask_question:
\*   text_content = document_text[:max_chars]
\*   if len(document_text) > max_chars: text_content += "..."
TruncateQuestion(document_text, max_chars) ==
    LET text_content == Prefix(document_text, max_chars)
    IN  IF Len(document_text) > max_chars
        THEN text_content \o Marker
        ELSE text_content

\* a variant of ClampCards that lets a count of 0 through
ClampCardsFromZero(num_cards) ==
    IF num_cards < 0 \/ num_cards > MaxCards
    THEN Min(Max(num_cards, 0), MaxCards)
    ELSE num_cards

\* generate_flashcards: if num_cards < 1 or num_cards > 20:
\*                          num_cards = min(max(num_cards, 1), 20)
ClampCards(num_cards) ==
    IF num_cards < MinCards \/ num_cards > MaxCards
    THEN Min(Max(num_cards, MinCards), MaxCards)
    ELSE num_cards

\* generate_quiz: if num_questions < 1 or num_questions > 15:
\*                    num_questions = min(max(num_questions, 1), 15)
ClampQuestions(num_questions) ==
    IF num_questions < MinQuestions \/ num_questions > MaxQuestions
    THEN Min(Max(num_questions, MinQuestions), MaxQuestions)
    ELSE num_questions

\* discover_research: if max_papers > 15: max_papers = 15
ClampPapers(max_papers) == IF max_papers > MaxPapers THEN MaxPapers ELSE max_papers

\* discover_videos: if max_videos > 12: max_videos = 12
ClampVideos(max_videos) == IF max_videos > MaxVideos THEN MaxVideos ELSE max_videos

\* discover_resources: if max_resources > 15: max_resources = 15
ClampResources(max_resources) ==
    IF max_resources > MaxResources THEN MaxResources ELSE max_resources

\* f"File: {file.filename} ({file_size/1024/1024:.2f} MB)": the name and the
\* size in hundredths of a megabyte, rounded to the nearest
FileInfo(filename, file_size) ==
    [name |-> filename,
     mb_hundredths |-> (file_size \div BytesPerMB) * 100
                       + ((file_size % BytesPerMB) * 100 + BytesPerMB \div 2)
                            \div BytesPerMB]

(***************************************************************************)
(* Inputs: what clients send and what collaborators answer.                *)
(***************************************************************************)
\* a text of n characters: words of four letters separated by one blank
TextChar(i) == IF i % 5 = 0 THEN " " ELSE IF i % 2 = 0 THEN "a" ELSE "b"
MakeText(n) == SubSeq([i \in 1..n |-> TextChar(i)], 1, n)

NoneFilename == [present |-> FALSE, name |-> <<>>]
Named(chars) == [present |-> TRUE, name |-> chars]
Filenames ==
    { NoneFilename,
      Named(<<>>),
      Named(<<"a", ".", "P", "d", "f">>),
      Named(<<"a", ".", "t", "x", "t">>) }

FileSizes == {0, MaxFileSize, MaxFileSize + 1}

\* results of pdf_processor.extract_text_with_ocr
ExtractResult(status, message, text, page_count) ==
    [status |-> status, message |-> message, text |-> text,
     word_count |-> WordCount(text), page_count |-> page_count,
     methods_used |-> <<"pdfplumber">>]

\* an error, nine words, ten words, fifteen words
ExtractResults ==
    { ExtractResult("error", "cannot open", <<>>, 0),
      ExtractResult("success", "ok", MakeText(44), 1),
      ExtractResult("success", "ok", MakeText(49), 1),
      ExtractResult("success", "ok", MakeText(74), 2) }

\* answers of the completion service: a text, or a text that starts with
\* the error mark (ErrorMark stands for the cross mark character)
ErrorMark == "X"
CompletionTexts == { <<"o", "k">>, <<ErrorMark, "e">> }

Card(q) == [question |-> q, answer |-> "answer", category |-> "c",
            difficulty |-> "Easy"]
FlashcardLists == { <<>>, <<Card("q1"), Card("q2")>> }

Question(q) == [question |-> q, options |-> <<"a", "b", "c", "d">>,
                correct_answer |-> 0, explanation |-> "e", difficulty |-> "Easy"]
QuizLists == { <<>>, <<Question("q1"), Question("q2")>> }

ItemLists == { <<>>, <<"item1">> }
Keywords == { [topic |-> "t", research_keywords |-> <<"k">>] }

\* requested counts, one above each maximum; the specifications further
\* down draw the counts and the texts from larger sets
CardCounts == {21}
QuestionCounts == {16}
PaperCounts == {16}
VideoCounts == {13}
ResourceCounts == {16}

Questions == { <<" ">>, <<"w", "h", "y">> }
DocumentTexts == { <<" ", "\n">>, <<"d", "o", "c">> }

(***************************************************************************)
(* State.                                                                  *)
(***************************************************************************)
VARIABLES
    study_sessions,   \* the session store: session id -> session
    req,              \* per slot: the request in progress or last finished
    temp_files,       \* the names of the temporary files that exist
    abandoned         \* workers still running after their wait timed out

vars == <<study_sessions, req, temp_files, abandoned>>

NoResponse == [code |-> 0, body |-> [detail |-> "no response"]]

\* the local variable that takes the value of the wait_for (result in
\* upload_pdf, summary, flashcards, quiz, papers, videos, resources,
\* response), before the wait_for has returned
NoResult == [status |-> "none"]

\* a slot that has not handled a request yet.  pc: "idle", "read" (upload
\* suspended in file.read), "wait" (suspended in wait_for on the worker),
\* "wait2" (suspended in the second wait_for of a discovery), "done".
\* wait records how the last wait_for of the request ended.  temp_file is
\* the name of the file NamedTemporaryFile created for the request and
\* temp_file_path the value of the variable of that name; 0 stands for no
\* file and for None.
IdleReq ==
    [pc |-> "idle", kind |-> "none", session_id |-> "default", count |-> 0,
     filename |-> NoneFilename, file_size |-> 0,
     question |-> <<>>, document_text |-> <<>>,
     local_count |-> 0, temp_file |-> 0, temp_file_path |-> 0, calls |-> <<>>,
     wait |-> "none", result |-> NoResult, response |-> NoResponse]

Init ==
    /\ study_sessions = <<>>
    /\ req = [s \in Slots |-> IdleReq]
    /\ temp_files = {}
    /\ abandoned = 0

\* a slot is free for a new request
Free(s) == req[s].pc \in {"idle", "done"}

\* raise HTTPException(status_code, detail)
Error(status_code, detail) == [code |-> status_code, body |-> [detail |-> detail]]
\* a returned response model
Success(body) == [code |-> 200, body |-> body]

\* the request of slot s ends with the given response
Finish(s, r, response) ==
    req' = [req EXCEPT ![s] = [r EXCEPT !.pc = "done", !.response = response]]

\* a variant of Put that, when the id is in the store, puts the new text and
\* extraction result into the stored session and keeps its other fields
PutMerging(store, session_id, session) ==
    [k \in DOMAIN store \cup {session_id} |->
        IF k # session_id THEN store[k]
        ELSE IF k \in DOMAIN store
        THEN [store[k] EXCEPT !.text = session.text,
                              !.processing_result = session.processing_result]
        ELSE session]

\* study_sessions[session_id] = session
Put(store, session_id, session) ==
    [k \in DOMAIN store \cup {session_id} |->
        IF k = session_id THEN session ELSE store[k]]

\* a variant of Delete that leaves the entry in the store
DeleteNothing(store, session_id) == store

\* del study_sessions[session_id]
Delete(store, session_id) == [k \in DOMAIN store \ {session_id} |-> store[k]]

\* a call handed to asyncio.to_thread
Call(collaborator, text, count) ==
    [collaborator |-> collaborator, text |-> text, count |-> count,
     keywords |-> <<>>, topic |-> ""]

\* a call of a find function with the extracted keywords and topic
FindCall(collaborator, kw, count) ==
    [collaborator |-> collaborator, text |-> <<>>, count |-> count,
     keywords |-> kw.research_keywords, topic |-> kw.topic]

\* the wait of slot s timed out: its worker keeps running
Abandon == abandoned' = abandoned + 1

(***************************************************************************)
(* upload_pdf                                                              *)
(***************************************************************************)
\* a variant of AcceptedName that compares the extension without lower()
AcceptedNameCaseSensitive(name) == EndsWith(name, <<".", "p", "d", "f">>)

\* line 182: file.filename.lower().endswith('.pdf')
AcceptedName(name) == EndsWith(Lower(name), <<".", "p", "d", "f">>)

\* a variant of TooLarge that also rejects a payload of exactly the ceiling
TooLargeInclusive(file_size) == file_size >= MaxFileSize

\* line 190: file_size > 50 * 1024 * 1024
TooLarge(file_size) == file_size > MaxFileSize

\* a variant of TooFewWords whose threshold is one word lower
TooFewWordsOffByOne(result) == result.word_count < MinWordCount - 1

\* line 220: result["word_count"] < 10
TooFewWords(result) == result.word_count < MinWordCount

\* lines 179-187: the file name checks, then the handler suspends in
\* file.read()
upload_pdf_begin(s, filename) ==
    /\ Free(s)
    /\ LET r == [IdleReq EXCEPT !.kind = "upload", !.filename = filename]
       IN  IF ~filename.present \/ filename.name = <<>>
           THEN Finish(s, r, Error(400, "No filename provided"))
           ELSE IF ~AcceptedName(filename.name)
           THEN Finish(s, r, Error(400, "Only PDF files are allowed"))
           ELSE req' = [req EXCEPT ![s] = [r EXCEPT !.pc = "read"]]
    /\ UNCHANGED <<study_sessions, temp_files, abandoned>>

\* temp_file.name: NamedTemporaryFile gives every file a name of its own.
\* The file of a request in progress is named by the slot of the request;
\* the files whose name no request holds in temp_file_path any more are not
\* told apart and share the name Orphan.
Orphan == MaxInFlight + 1

\* lines 187-204, 248-258: file.read() returned file_size bytes that pass the
\* size checks; NamedTemporaryFile(delete=False) creates the file, and
\* temp_file.write(content) raises (no space left on the device, say) before
\* temp_file_path is assigned: the exception is answered with 500 and the
\* finally clause, which sees temp_file_path = None, unlinks nothing
upload_pdf_write_failed(s, file_size) ==
    /\ req[s].pc = "read"
    /\ ~TooLarge(file_size) /\ file_size # 0
    /\ temp_files' = temp_files \cup {Orphan}
    /\ Finish(s, [req[s] EXCEPT !.file_size = file_size, !.temp_file = Orphan],
              Error(500, "Processing failed"))
    /\ UNCHANGED <<study_sessions, abandoned>>

\* lines 187-211: file.read() returned file_size bytes; the size checks, the
\* temporary file, the extraction is handed to a worker and the handler
\* suspends in wait_for
upload_pdf_read(s, file_size) ==
    /\ req[s].pc = "read"
    /\ LET r == [req[s] EXCEPT !.file_size = file_size]
       IN  IF TooLarge(r.file_size)
           THEN /\ Finish(s, r, Error(400, "File too large. Maximum size is 50MB"))
                /\ UNCHANGED temp_files
           ELSE IF r.file_size = 0
           THEN /\ Finish(s, r, Error(400, "Empty file uploaded"))
                /\ UNCHANGED temp_files
           ELSE /\ temp_files' = temp_files \cup {s}
                /\ req' = [req EXCEPT ![s] =
                             [r EXCEPT !.pc = "wait", !.temp_file = s,
                                       !.temp_file_path = s,
                                       !.calls = Append(r.calls,
                                           Call("extract_text_with_ocr", <<>>, 0))]]
    /\ UNCHANGED <<study_sessions, abandoned>>

\* lines 252-258: finally: the temporary file is unlinked if it exists
Cleanup(s) ==
    temp_files' = IF req[s].temp_file_path # 0
                  THEN temp_files \ {req[s].temp_file_path}
                  ELSE temp_files

\* a variant of UploadSessionId: another identifier than the one the
\* requests name by default
UploadSessionIdOther == "other"

\* line 228: session_id = "default"
UploadSessionId == "default"

\* a variant of upload_pdf_extracted that stores the session before it
\* looks at the status and the word count of the result
upload_pdf_extracted_store_first(s, result) ==
    /\ req[s].pc = "wait" /\ req[s].kind = "upload"
    /\ LET r == [req[s] EXCEPT !.wait = "returned", !.result = result]
       IN  /\ study_sessions' = Put(study_sessions, "default",
                      [text |-> result.text,
                       file_info |-> FileInfo(r.filename.name, r.file_size),
                       processing_result |-> result,
                       filename |-> r.filename.name])
           /\ IF result.status = "error"
              THEN Finish(s, r, Error(400, result.message))
              ELSE IF TooFewWords(result)
              THEN Finish(s, r, Error(422, "Very little text could be extracted."))
              ELSE Finish(s, r, Success(
                      [status |-> result.status, message |-> result.message,
                       word_count |-> result.word_count,
                       page_count |-> result.page_count,
                       methods_used |-> result.methods_used]))
    /\ Cleanup(s)
    /\ UNCHANGED abandoned

\* lines 216-244: the extraction returned result in time
upload_pdf_extracted(s, result) ==
    /\ req[s].pc = "wait" /\ req[s].kind = "upload"
    /\ LET r == [req[s] EXCEPT !.wait = "returned", !.result = result]
       IN  IF result.status = "error"
           THEN /\ Finish(s, r, Error(400, result.message))
                /\ UNCHANGED study_sessions
           ELSE IF TooFewWords(result)
           THEN /\ Finish(s, r, Error(422, "Very little text could be extracted."))
                /\ UNCHANGED study_sessions
           ELSE /\ study_sessions' = Put(study_sessions, UploadSessionId,
                      [text |-> result.text,
                       file_info |-> FileInfo(r.filename.name, r.file_size),
                       processing_result |-> result,
                       filename |-> r.filename.name])
                /\ Finish(s, r, Success(
                      [status |-> result.status, message |-> result.message,
                       word_count |-> result.word_count,
                       page_count |-> result.page_count,
                       methods_used |-> result.methods_used]))
    /\ Cleanup(s)
    /\ UNCHANGED abandoned

\* a variant of upload_pdf_timeout in which the timeout is not turned into
\* a 408 and reaches the handler of unexpected exceptions
upload_pdf_timeout_as_500(s) ==
    /\ req[s].pc = "wait" /\ req[s].kind = "upload"
    /\ abandoned < MaxAbandoned
    /\ Finish(s, [req[s] EXCEPT !.wait = "timeout"],
              Error(500, "Processing failed"))
    /\ Cleanup(s)
    /\ Abandon
    /\ UNCHANGED study_sessions

\* lines 212-214, 246-247: wait_for raised asyncio.TimeoutError
upload_pdf_timeout(s) ==
    /\ req[s].pc = "wait" /\ req[s].kind = "upload"
    /\ abandoned < MaxAbandoned
    /\ Finish(s, [req[s] EXCEPT !.wait = "timeout"],
              Error(408, "PDF processing timeout."))
    /\ Cleanup(s)
    /\ Abandon
    /\ UNCHANGED study_sessions

\* lines 248-250: the extraction raised an exception
upload_pdf_exception(s) ==
    /\ req[s].pc = "wait" /\ req[s].kind = "upload"
    /\ Finish(s, [req[s] EXCEPT !.wait = "raised"],
              Error(500, "Processing failed"))
    /\ Cleanup(s)
    /\ UNCHANGED <<study_sessions, abandoned>>

(***************************************************************************)
(* clear_session, get_session_info                                         *)
(***************************************************************************)
\* lines 614-623
clear_session(s, session_id) ==
    /\ Free(s)
    /\ LET r == [IdleReq EXCEPT !.kind = "clear", !.session_id = session_id]
       IN  IF session_id \in DOMAIN study_sessions
           THEN /\ study_sessions' = Delete(study_sessions, session_id)
                /\ Finish(s, r, Success([message |-> "Session cleared successfully",
                                         status |-> "success"]))
           ELSE /\ UNCHANGED study_sessions
                /\ Finish(s, r, Success([message |-> "No active session found",
                                         status |-> "info"]))
    /\ UNCHANGED <<temp_files, abandoned>>

\* a variant of get_session_info that takes the session out of the store
\* when it reports it
get_session_info_and_forget(s, session_id) ==
    /\ Free(s)
    /\ LET r == [IdleReq EXCEPT !.kind = "session-info", !.session_id = session_id]
       IN  IF session_id \notin DOMAIN study_sessions
           THEN Finish(s, r, Success([active |-> FALSE]))
           ELSE LET session_data == study_sessions[session_id]
                IN  Finish(s, r, Success(
                      [active |-> TRUE,
                       file_info |-> session_data.file_info,
                       filename |-> session_data.filename,
                       word_count |-> session_data.processing_result.word_count,
                       page_count |-> session_data.processing_result.page_count,
                       methods_used |-> session_data.processing_result.methods_used]))
    /\ study_sessions' = Delete(study_sessions, session_id)
    /\ UNCHANGED <<temp_files, abandoned>>

\* lines 625-640
get_session_info(s, session_id) ==
    /\ Free(s)
    /\ LET r == [IdleReq EXCEPT !.kind = "session-info", !.session_id = session_id]
       IN  IF session_id \notin DOMAIN study_sessions
           THEN Finish(s, r, Success([active |-> FALSE]))
           ELSE LET session_data == study_sessions[session_id]
                IN  Finish(s, r, Success(
                      [active |-> TRUE,
                       file_info |-> session_data.file_info,
                       filename |-> session_data.filename,
                       word_count |-> session_data.processing_result.word_count,
                       page_count |-> session_data.processing_result.page_count,
                       methods_used |-> session_data.processing_result.methods_used]))
    /\ UNCHANGED <<study_sessions, temp_files, abandoned>>

\* lines 156-173: startup_event (lines 113-149) raises when an agent cannot
\* be made, so a process that serves requests has all its agents and the
\* answer is the healthy one, with the number of stored sessions
health_check(s) ==
    /\ Free(s)
    /\ Finish(s, [IdleReq EXCEPT !.kind = "health"],
              Success([status |-> "healthy", agents_initialized |-> TRUE,
                       active_sessions |-> Cardinality(DOMAIN study_sessions)]))
    /\ UNCHANGED <<study_sessions, temp_files, abandoned>>

\* a variant of abandoned_worker_finishes in which the result of an
\* abandoned extraction is stored as a session when it comes
abandoned_worker_stores ==
    /\ abandoned > 0
    /\ abandoned' = abandoned - 1
    /\ study_sessions' =
         Put(study_sessions, "default",
             [text |-> MakeText(74),
              file_info |-> FileInfo(<<"a", ".", "P", "d", "f">>, MaxFileSize),
              processing_result |-> ExtractResult("success", "ok", MakeText(74), 2),
              filename |-> <<"a", ".", "P", "d", "f">>])
    /\ UNCHANGED <<req, temp_files>>

\* a worker whose wait timed out finishes; nobody reads its result
abandoned_worker_finishes ==
    /\ abandoned > 0
    /\ abandoned' = abandoned - 1
    /\ UNCHANGED <<study_sessions, req, temp_files>>

(***************************************************************************)
(* The handlers that read the stored session.                              *)
(***************************************************************************)
NotFound == Error(404, "No document found. Please upload a PDF first.")

\* a variant of BeginWithSession that hands the text to the collaborator
\* before it looks for the session
BeginWithSessionCallFirst(s, kind, session_id, count, local_count, max_chars, collaborator) ==
    /\ Free(s)
    /\ LET r == [IdleReq EXCEPT !.kind = kind, !.session_id = session_id,
                                !.count = count, !.local_count = local_count,
                                !.calls = <<Call(collaborator, <<>>, local_count)>>]
       IN  IF session_id \notin DOMAIN study_sessions
           THEN Finish(s, r, NotFound)
           ELSE LET text == Truncate(study_sessions[session_id].text, max_chars)
                IN  req' = [req EXCEPT ![s] =
                              [r EXCEPT !.pc = "wait",
                                        !.calls = <<Call(collaborator, text,
                                                         local_count)>>]]
    /\ UNCHANGED <<study_sessions, temp_files, abandoned>>

\* the common beginning of the six handlers: the session test, the clamped
\* count, the truncated session text, the first offloaded call and the
\* suspension in wait_for
BeginWithSession(s, kind, session_id, count, local_count, max_chars, collaborator) ==
    /\ Free(s)
    /\ LET r == [IdleReq EXCEPT !.kind = kind, !.session_id = session_id,
                                !.count = count]
       IN  IF session_id \notin DOMAIN study_sessions
           THEN Finish(s, r, NotFound)
           ELSE LET text == Truncate(study_sessions[session_id].text, max_chars)
                IN  req' = [req EXCEPT ![s] =
                              [r EXCEPT !.pc = "wait", !.local_count = local_count,
                                        !.calls = <<Call(collaborator, text,
                                                         local_count)>>]]
    /\ UNCHANGED <<study_sessions, temp_files, abandoned>>

Waiting(s, kind, pc) == req[s].pc = pc /\ req[s].kind = kind

\* the request ends with the given response after its wait ended as said
End(s, wait, response) ==
    Finish(s, [req[s] EXCEPT !.wait = wait], response)

\* a variant of Returned that looks for the session again when the wait_for
\* has returned and answers 404 when it is gone
ReturnedIfSessionStill(s, value, response) ==
    Finish(s, [req[s] EXCEPT !.wait = "returned", !.result = value],
           IF req[s].session_id \in DOMAIN study_sessions THEN response ELSE NotFound)

\* the request ends with the given response after its wait_for returned value
Returned(s, value, response) ==
    Finish(s, [req[s] EXCEPT !.wait = "returned", !.result = value], response)

(***************************************************************************)
(* generate_summary                                                        *)
(***************************************************************************)
AgentSummary(text) == [kind |-> "agent", text |-> text, words |-> 0, pages |-> 0]

\* a variant of BasicSummary that reports the extractor's word count
\* of the first page only
BasicSummaryFirstPage(session) ==
    [kind |-> "basic", text |-> <<>>,
     words |-> WordCount(session.text) \div session.processing_result.page_count,
     pages |-> session.processing_result.page_count]

\* line 293: the basic summary built from the stored session
BasicSummary(session) ==
    [kind |-> "basic", text |-> <<>>, words |-> WordCount(session.text),
     pages |-> session.processing_result.page_count]

\* lines 264-281
generate_summary_begin(s, session_id) ==
    BeginWithSession(s, "summary", session_id, 0, 0, SummaryMaxChars,
                     "generate_summary")

\* lines 283-287, 297-299: the agent returned summary in time
generate_summary_returned(s, summary) ==
    /\ Waiting(s, "summary", "wait")
    /\ IF StartsWith(summary, <<ErrorMark>>)
       THEN Returned(s, summary, Error(500, "Summary generation failed"))
       ELSE Returned(s, summary,
                Success([summary |-> AgentSummary(summary), status |-> "success"]))
    /\ UNCHANGED <<study_sessions, temp_files, abandoned>>

\* lines 289-296: wait_for raised asyncio.TimeoutError; the basic summary
\* reads study_sessions[session_id] again, and any exception there gives 408
generate_summary_timeout(s) ==
    /\ Waiting(s, "summary", "wait")
    /\ abandoned < MaxAbandoned
    /\ IF req[s].session_id \in DOMAIN study_sessions
       THEN End(s, "timeout",
                Success([summary |-> BasicSummary(study_sessions[req[s].session_id]),
                         status |-> "success"]))
       ELSE End(s, "timeout", Error(408, "Summary generation timeout."))
    /\ Abandon
    /\ UNCHANGED <<study_sessions, temp_files>>

\* lines 297-299: the agent raised an exception
generate_summary_exception(s) ==
    /\ Waiting(s, "summary", "wait")
    /\ End(s, "raised", Error(500, "Summary generation failed"))
    /\ UNCHANGED <<study_sessions, temp_files, abandoned>>

(***************************************************************************)
(* generate_flashcards                                                     *)
(***************************************************************************)
BasicCard1 ==
    [question |-> "What is the main topic of this document?",
     answer |-> "This document covers academic or professional content",
     category |-> "General", difficulty |-> "Easy"]
BasicCard2 ==
    [question |-> "What should you focus on when studying this material?",
     answer |-> "Focus on key concepts, methodologies, and important conclusions",
     category |-> "Study Tips", difficulty |-> "Medium"]

\* lines 330-343: the fallback for an empty result
EmptyFallbackFlashcards == <<BasicCard1, BasicCard2>>
\* lines 353-360: the fallback for a timeout
TimeoutFallbackFlashcards == <<BasicCard1>>

FlashcardResponse(flashcards) ==
    Success([flashcards |-> flashcards, count |-> Len(flashcards),
             status |-> "success"])

\* lines 305-326
generate_flashcards_begin(s, session_id, num_cards) ==
    BeginWithSession(s, "flashcards", session_id, num_cards, ClampCards(num_cards),
                     FlashcardMaxChars, "generate_flashcards_structured")

\* a variant of generate_flashcards_returned that answers with the list as
\* it was returned, the empty list too
generate_flashcards_returned_as_is(s, flashcards) ==
    /\ Waiting(s, "flashcards", "wait")
    /\ Returned(s, flashcards, FlashcardResponse(flashcards))
    /\ UNCHANGED <<study_sessions, temp_files, abandoned>>

\* lines 328-348
generate_flashcards_returned(s, flashcards) ==
    /\ Waiting(s, "flashcards", "wait")
    /\ IF flashcards = <<>>
       THEN Returned(s, flashcards, FlashcardResponse(EmptyFallbackFlashcards))
       ELSE Returned(s, flashcards, FlashcardResponse(flashcards))
    /\ UNCHANGED <<study_sessions, temp_files, abandoned>>

\* lines 350-361
generate_flashcards_timeout(s) ==
    /\ Waiting(s, "flashcards", "wait")
    /\ abandoned < MaxAbandoned
    /\ End(s, "timeout", FlashcardResponse(TimeoutFallbackFlashcards))
    /\ Abandon
    /\ UNCHANGED <<study_sessions, temp_files>>

\* lines 362-364
generate_flashcards_exception(s) ==
    /\ Waiting(s, "flashcards", "wait")
    /\ End(s, "raised", Error(500, "Flashcard generation failed"))
    /\ UNCHANGED <<study_sessions, temp_files, abandoned>>

(***************************************************************************)
(* generate_quiz                                                           *)
(***************************************************************************)
BasicQuestion1 ==
    [question |-> "What type of document is this?",
     options |-> <<"Academic/Professional document", "Fiction novel",
                   "Recipe book", "Comic book">>,
     correct_answer |-> 0,
     explanation |-> "Based on the content analysis",
     difficulty |-> "Easy"]
BasicQuestion2 ==
    [question |-> "What is the best approach to studying this material?",
     options |-> <<"Skim through quickly", "Focus on key concepts and take notes",
                   "Memorize every word", "Ignore the details">>,
     correct_answer |-> 1,
     explanation |-> "Effective studying involves focusing on key concepts",
     difficulty |-> "Medium"]

\* lines 395-410: the fallback for an empty result
EmptyFallbackQuiz == <<BasicQuestion1, BasicQuestion2>>
\* lines 420-428: the fallback for a timeout
TimeoutFallbackQuiz == <<BasicQuestion1>>

QuizResponse(quiz) ==
    Success([quiz |-> quiz, count |-> Len(quiz), status |-> "success"])

\* lines 370-391
generate_quiz_begin(s, session_id, num_questions) ==
    BeginWithSession(s, "quiz", session_id, num_questions,
                     ClampQuestions(num_questions), QuizMaxChars,
                     "generate_quiz_structured")

\* lines 393-415
generate_quiz_returned(s, quiz) ==
    /\ Waiting(s, "quiz", "wait")
    /\ IF quiz = <<>>
       THEN Returned(s, quiz, QuizResponse(EmptyFallbackQuiz))
       ELSE Returned(s, quiz, QuizResponse(quiz))
    /\ UNCHANGED <<study_sessions, temp_files, abandoned>>

\* lines 417-429
generate_quiz_timeout(s) ==
    /\ Waiting(s, "quiz", "wait")
    /\ abandoned < MaxAbandoned
    /\ End(s, "timeout", QuizResponse(TimeoutFallbackQuiz))
    /\ Abandon
    /\ UNCHANGED <<study_sessions, temp_files>>

\* lines 430-432
generate_quiz_exception(s) ==
    /\ Waiting(s, "quiz", "wait")
    /\ End(s, "raised", Error(500, "Quiz generation failed"))
    /\ UNCHANGED <<study_sessions, temp_files, abandoned>>

(***************************************************************************)
(* discover_research, discover_videos, discover_resources                  *)
(***************************************************************************)
ListResponse(items) ==
    Success([items |-> items, count |-> Len(items), status |-> "success"])

\* lines 438-459
discover_research_begin(s, session_id, max_papers) ==
    BeginWithSession(s, "research", session_id, max_papers, ClampPapers(max_papers),
                     ResearchMaxChars, "find_papers")

\* lines 461-462
discover_research_returned(s, papers) ==
    /\ Waiting(s, "research", "wait")
    /\ Returned(s, papers, ListResponse(papers))
    /\ UNCHANGED <<study_sessions, temp_files, abandoned>>

\* lines 464-467
discover_research_timeout(s) ==
    /\ Waiting(s, "research", "wait")
    /\ abandoned < MaxAbandoned
    /\ End(s, "timeout", ListResponse(<<>>))
    /\ Abandon
    /\ UNCHANGED <<study_sessions, temp_files>>

\* lines 468-471
discover_research_exception(s) ==
    /\ Waiting(s, "research", "wait")
    /\ End(s, "raised", ListResponse(<<>>))
    /\ UNCHANGED <<study_sessions, temp_files, abandoned>>

\* lines 477-498
discover_videos_begin(s, session_id, max_videos) ==
    BeginWithSession(s, "videos", session_id, max_videos, ClampVideos(max_videos),
                     VideoMaxChars, "extract_smart_keywords_and_topic")

\* lines 522-543
discover_resources_begin(s, session_id, max_resources) ==
    BeginWithSession(s, "resources", session_id, max_resources,
                     ClampResources(max_resources), ResourceMaxChars,
                     "extract_smart_keywords_and_topic")

\* a variant of KeywordsReturned that hands the find call to two workers
KeywordsReturnedTwice(s, kind, kw, collaborator) ==
    /\ Waiting(s, kind, "wait")
    /\ req' = [req EXCEPT ![s] =
                 [req[s] EXCEPT !.pc = "wait2",
                                !.calls = req[s].calls \o
                                    <<FindCall(collaborator, kw, req[s].local_count),
                                      FindCall(collaborator, kw, req[s].local_count)>>]]
    /\ UNCHANGED <<study_sessions, temp_files, abandoned>>

\* lines 495-504 and 540-549: the keywords returned in time; the find call
\* is handed to a worker and the handler suspends in the second wait_for
KeywordsReturned(s, kind, kw, collaborator) ==
    /\ Waiting(s, kind, "wait")
    /\ req' = [req EXCEPT ![s] =
                 [req[s] EXCEPT !.pc = "wait2",
                                !.calls = Append(req[s].calls,
                                    FindCall(collaborator, kw, req[s].local_count))]]
    /\ UNCHANGED <<study_sessions, temp_files, abandoned>>

discover_videos_keywords(s, kw) == KeywordsReturned(s, "videos", kw, "find_videos")
discover_resources_keywords(s, kw) ==
    KeywordsReturned(s, "resources", kw, "find_resources")

\* lines 506-507 and 551-552
FindReturned(s, kind, items) ==
    /\ Waiting(s, kind, "wait2")
    /\ Returned(s, items, ListResponse(items))
    /\ UNCHANGED <<study_sessions, temp_files, abandoned>>

discover_videos_returned(s, videos) == FindReturned(s, "videos", videos)
discover_resources_returned(s, resources) == FindReturned(s, "resources", resources)

\* lines 509-512 and 554-557: either wait_for raised asyncio.TimeoutError
FindTimeout(s, kind) ==
    /\ req[s].kind = kind /\ req[s].pc \in {"wait", "wait2"}
    /\ abandoned < MaxAbandoned
    /\ End(s, "timeout", ListResponse(<<>>))
    /\ Abandon
    /\ UNCHANGED <<study_sessions, temp_files>>

discover_videos_timeout(s) == FindTimeout(s, "videos")
discover_resources_timeout(s) == FindTimeout(s, "resources")

\* a variant of FindException that reports the exception as a 500, as the
\* generation handlers do
FindExceptionAs500(s, kind) ==
    /\ req[s].kind = kind /\ req[s].pc \in {"wait", "wait2"}
    /\ End(s, "raised", Error(500, "Discovery failed"))
    /\ UNCHANGED <<study_sessions, temp_files, abandoned>>

\* lines 513-516 and 558-561: either offloaded call raised an exception
FindException(s, kind) ==
    /\ req[s].kind = kind /\ req[s].pc \in {"wait", "wait2"}
    /\ End(s, "raised", ListResponse(<<>>))
    /\ UNCHANGED <<study_sessions, temp_files, abandoned>>

discover_videos_exception(s) == FindException(s, "videos")
discover_resources_exception(s) == FindException(s, "resources")

(***************************************************************************)
(* ask_question                                                            *)
(***************************************************************************)
\* lines 567-599
ask_question_begin(s, question, document_text) ==
    /\ Free(s)
    /\ LET r == [IdleReq EXCEPT !.kind = "question", !.question = question,
                                !.document_text = document_text]
       IN  IF Blank(question)
           THEN Finish(s, r, Error(400, "Question cannot be empty"))
           ELSE IF Blank(document_text)
           THEN Finish(s, r, Error(400, "No document text provided"))
           ELSE LET text_content == TruncateQuestion(document_text, QuestionMaxChars)
                IN  req' = [req EXCEPT ![s] =
                              [r EXCEPT !.pc = "wait",
                                        !.calls = <<Call("chat_completion",
                                                         text_content, 0)>>]]
    /\ UNCHANGED <<study_sessions, temp_files, abandoned>>

\* lines 601-605, 610-612
ask_question_returned(s, response) ==
    /\ Waiting(s, "question", "wait")
    /\ IF StartsWith(response, <<ErrorMark>>)
       THEN Returned(s, response, Error(500, "Question answering failed"))
       ELSE Returned(s, response,
                     Success([answer |-> response, status |-> "success"]))
    /\ UNCHANGED <<study_sessions, temp_files, abandoned>>

\* lines 607-609
ask_question_timeout(s) ==
    /\ Waiting(s, "question", "wait")
    /\ abandoned < MaxAbandoned
    /\ End(s, "timeout", Error(408, "Question answering timeout."))
    /\ Abandon
    /\ UNCHANGED <<study_sessions, temp_files>>

\* lines 610-612
ask_question_exception(s) ==
    /\ Waiting(s, "question", "wait")
    /\ End(s, "raised", Error(500, "Question answering failed"))
    /\ UNCHANGED <<study_sessions, temp_files, abandoned>>

(***************************************************************************)
(* The specification.                                                      *)
(***************************************************************************)
Next ==
    \/ \E s \in Slots, f \in Filenames : upload_pdf_begin(s, f)
    \/ \E s \in Slots, n \in FileSizes : upload_pdf_read(s, n)
    \/ \E s \in Slots, n \in FileSizes : upload_pdf_write_failed(s, n)
    \/ \E s \in Slots, result \in ExtractResults : upload_pdf_extracted(s, result)
    \/ \E s \in Slots : upload_pdf_timeout(s)
    \/ \E s \in Slots : upload_pdf_exception(s)
    \/ \E s \in Slots, id \in SessionIds : clear_session(s, id)
    \/ \E s \in Slots, id \in SessionIds : get_session_info(s, id)
    \/ \E s \in Slots : health_check(s)
    \/ abandoned_worker_finishes
    \/ \E s \in Slots, id \in SessionIds : generate_summary_begin(s, id)
    \/ \E s \in Slots, t \in CompletionTexts : generate_summary_returned(s, t)
    \/ \E s \in Slots : generate_summary_timeout(s)
    \/ \E s \in Slots : generate_summary_exception(s)
    \/ \E s \in Slots, id \in SessionIds, n \in CardCounts :
          generate_flashcards_begin(s, id, n)
    \/ \E s \in Slots, l \in FlashcardLists : generate_flashcards_returned(s, l)
    \/ \E s \in Slots : generate_flashcards_timeout(s)
    \/ \E s \in Slots : generate_flashcards_exception(s)
    \/ \E s \in Slots, id \in SessionIds, n \in QuestionCounts :
          generate_quiz_begin(s, id, n)
    \/ \E s \in Slots, l \in QuizLists : generate_quiz_returned(s, l)
    \/ \E s \in Slots : generate_quiz_timeout(s)
    \/ \E s \in Slots : generate_quiz_exception(s)
    \/ \E s \in Slots, id \in SessionIds, n \in PaperCounts :
          discover_research_begin(s, id, n)
    \/ \E s \in Slots, l \in ItemLists : discover_research_returned(s, l)
    \/ \E s \in Slots : discover_research_timeout(s)
    \/ \E s \in Slots : discover_research_exception(s)
    \/ \E s \in Slots, id \in SessionIds, n \in VideoCounts :
          discover_videos_begin(s, id, n)
    \/ \E s \in Slots, kw \in Keywords : discover_videos_keywords(s, kw)
    \/ \E s \in Slots, l \in ItemLists : discover_videos_returned(s, l)
    \/ \E s \in Slots : discover_videos_timeout(s)
    \/ \E s \in Slots : discover_videos_exception(s)
    \/ \E s \in Slots, id \in SessionIds, n \in ResourceCounts :
          discover_resources_begin(s, id, n)
    \/ \E s \in Slots, kw \in Keywords : discover_resources_keywords(s, kw)
    \/ \E s \in Slots, l \in ItemLists : discover_resources_returned(s, l)
    \/ \E s \in Slots : discover_resources_timeout(s)
    \/ \E s \in Slots : discover_resources_exception(s)
    \/ \E s \in Slots, q \in Questions, t \in DocumentTexts : ask_question_begin(s, q, t)
    \/ \E s \in Slots, t \in CompletionTexts : ask_question_returned(s, t)
    \/ \E s \in Slots : ask_question_timeout(s)
    \/ \E s \in Slots : ask_question_exception(s)

Spec == Init /\ [][Next]_vars

(***************************************************************************)
(* The handlers that forward a text, with documents as long as the         *)
(* character budgets.                                                      *)
(***************************************************************************)
PdfName == Named(<<"a", ".", "P", "d", "f">>)
WhyQuestion == <<"w", "h", "y">>

LongTextLengths ==
    {VideoMaxChars, ResearchMaxChars + 1, QuizMaxChars, SummaryMaxChars + 1}
LongExtractResults ==
    { ExtractResult("success", "ok", MakeText(n), 1) : n \in LongTextLengths }
LongDocumentTexts == { MakeText(QuestionMaxChars), MakeText(QuestionMaxChars + 1) }

NextTruncate ==
    \/ \E s \in Slots : upload_pdf_begin(s, PdfName)
    \/ \E s \in Slots : upload_pdf_read(s, MaxFileSize)
    \/ \E s \in Slots, result \in LongExtractResults : upload_pdf_extracted(s, result)
    \/ \E s \in Slots : generate_summary_begin(s, "default")
    \/ \E s \in Slots : generate_summary_exception(s)
    \/ \E s \in Slots : generate_flashcards_begin(s, "default", 10)
    \/ \E s \in Slots : generate_flashcards_exception(s)
    \/ \E s \in Slots : generate_quiz_begin(s, "default", 8)
    \/ \E s \in Slots : generate_quiz_exception(s)
    \/ \E s \in Slots : discover_research_begin(s, "default", 10)
    \/ \E s \in Slots : discover_research_exception(s)
    \/ \E s \in Slots : discover_videos_begin(s, "default", 10)
    \/ \E s \in Slots : discover_videos_exception(s)
    \/ \E s \in Slots : discover_resources_begin(s, "default", 12)
    \/ \E s \in Slots : discover_resources_exception(s)
    \/ \E s \in Slots, t \in LongDocumentTexts : ask_question_begin(s, WhyQuestion, t)
    \/ \E s \in Slots : ask_question_exception(s)

SpecTruncate == Init /\ [][NextTruncate]_vars

(***************************************************************************)
(* The handlers that clamp a generation count, with counts on both sides   *)
(* of both ranges.                                                         *)
(***************************************************************************)
RequestedCounts == {-3, -1, 0, 1, 2, 8, 14, 15, 16, 19, 20, 21, 50}
TenWords == ExtractResult("success", "ok", MakeText(49), 1)

NextClamp ==
    \/ \E s \in Slots : upload_pdf_begin(s, PdfName)
    \/ \E s \in Slots : upload_pdf_read(s, MaxFileSize)
    \/ \E s \in Slots : upload_pdf_extracted(s, TenWords)
    \/ \E s \in Slots, id \in SessionIds : clear_session(s, id)
    \/ \E s \in Slots, n \in RequestedCounts :
          generate_flashcards_begin(s, "default", n)
    \/ \E s \in Slots, l \in FlashcardLists : generate_flashcards_returned(s, l)
    \/ \E s \in Slots : generate_flashcards_exception(s)
    \/ \E s \in Slots, n \in RequestedCounts : generate_quiz_begin(s, "default", n)
    \/ \E s \in Slots, l \in QuizLists : generate_quiz_returned(s, l)
    \/ \E s \in Slots : generate_quiz_exception(s)

SpecClamp == Init /\ [][NextClamp]_vars

(***************************************************************************)
(* The discovery handlers, with counts below, inside and above the ranges. *)
(***************************************************************************)
DiscoveryCounts == {-3, 0, 1, 10, 12, 13, 15, 16, 50}

NextDiscover ==
    \/ \E s \in Slots : upload_pdf_begin(s, PdfName)
    \/ \E s \in Slots : upload_pdf_read(s, MaxFileSize)
    \/ \E s \in Slots : upload_pdf_extracted(s, TenWords)
    \/ \E s \in Slots, n \in DiscoveryCounts : discover_research_begin(s, "default", n)
    \/ \E s \in Slots, l \in ItemLists : discover_research_returned(s, l)
    \/ \E s \in Slots : discover_research_exception(s)
    \/ \E s \in Slots, n \in DiscoveryCounts : discover_videos_begin(s, "default", n)
    \/ \E s \in Slots, kw \in Keywords : discover_videos_keywords(s, kw)
    \/ \E s \in Slots, l \in ItemLists : discover_videos_returned(s, l)
    \/ \E s \in Slots : discover_videos_exception(s)
    \/ \E s \in Slots, n \in DiscoveryCounts : discover_resources_begin(s, "default", n)
    \/ \E s \in Slots, kw \in Keywords : discover_resources_keywords(s, kw)
    \/ \E s \in Slots, l \in ItemLists : discover_resources_returned(s, l)
    \/ \E s \in Slots : discover_resources_exception(s)

SpecDiscover == Init /\ [][NextDiscover]_vars

(***************************************************************************)
(* ask_question, with empty, whitespace-only and other questions and       *)
(* document texts.                                                         *)
(***************************************************************************)
AskedQuestions == { <<>>, <<" ">>, <<"\t", "\n">>, <<" ", "w", "h", "y", " ">> }
AskedDocumentTexts == { <<>>, <<"\n">>, <<" ", "\t">>, <<"d", "o", "c">> }

NextAsk ==
    \/ \E s \in Slots, q \in AskedQuestions, t \in AskedDocumentTexts :
          ask_question_begin(s, q, t)
    \/ \E s \in Slots, t \in CompletionTexts : ask_question_returned(s, t)
    \/ \E s \in Slots : ask_question_timeout(s)
    \/ \E s \in Slots : ask_question_exception(s)
    \/ abandoned_worker_finishes

SpecAsk == Init /\ [][NextAsk]_vars

(***************************************************************************)
(* Uploads of different files that overlap.                                *)
(***************************************************************************)
RaceFilenames == { PdfName, Named(<<"b", ".", "p", "d", "f">>) }
RaceFileSizes == { BytesPerMB, MaxFileSize }
RaceExtractResults ==
    { TenWords, ExtractResult("success", "ok", MakeText(74), 2) }

NextRace ==
    \/ \E s \in Slots, f \in RaceFilenames : upload_pdf_begin(s, f)
    \/ \E s \in Slots, n \in RaceFileSizes : upload_pdf_read(s, n)
    \/ \E s \in Slots, result \in RaceExtractResults : upload_pdf_extracted(s, result)
    \/ \E s \in Slots : upload_pdf_timeout(s)
    \/ \E s \in Slots : upload_pdf_exception(s)
    \/ \E s \in Slots : clear_session(s, "default")
    \/ abandoned_worker_finishes

SpecRace == Init /\ [][NextRace]_vars

(***************************************************************************)
(* Properties.                                                             *)
(***************************************************************************)
SessionKinds == {"summary", "flashcards", "quiz", "research", "videos", "resources"}
StaticPayloadKinds == {"summary", "flashcards", "quiz"}
EmptyListKinds == {"research", "videos", "resources"}
FailKinds == {"upload", "question"}

\* this step is the beginning of a request in slot s
Begins(s) == Free(s) /\ req'[s] # req[s]
\* this step ends the wait of the request of slot s with the given outcome
WaitEnds(s, outcome) ==
    /\ req[s].pc \in {"wait", "wait2"}
    /\ req'[s].pc \notin {"wait", "wait2"} \/ req'[s].calls # req[s].calls
    /\ req'[s].wait = outcome

\* C1: a generation or discovery request for a session id that is not in the
\* store ends at once with 404, has invoked no collaborator, and leaves the
\* store as it was.
C1_NoSessionNotFound ==
    [][\A s \in Slots :
         (/\ Begins(s)
          /\ req'[s].kind \in SessionKinds
          /\ req'[s].session_id \notin DOMAIN study_sessions)
         => /\ req'[s].pc = "done"
            /\ req'[s].response.code = 404
            /\ req'[s].calls = <<>>
            /\ study_sessions' = study_sessions]_vars

\* a request for the session id the uploads use ended with 404 and without
\* a call, while the other slot holds a finished successful upload
C1_Witness ==
    \E s \in Slots, u \in Slots :
        /\ req[s].kind \in SessionKinds /\ req[s].pc = "done"
        /\ req[s].session_id = "default"
        /\ req[s].response.code = 404 /\ req[s].calls = <<>>
        /\ req[u].kind = "upload" /\ req[u].response.code = 200

\* C2: a summary, flashcard or quiz request whose wait timed out ends as a
\* success, never as an error.
C2_TimeoutIsSuccess ==
    \A s \in Slots :
        (/\ req[s].pc = "done"
         /\ req[s].kind \in StaticPayloadKinds
         /\ req[s].wait = "timeout")
        => req[s].response.code = 200

\* C3 as stated: two timed-out requests of one kind that were given content
\* were given the same content.
C3_SamePlaceholder ==
    \A s \in Slots, t \in Slots :
        (/\ req[s].pc = "done" /\ req[t].pc = "done"
         /\ req[s].kind \in StaticPayloadKinds /\ req[t].kind = req[s].kind
         /\ req[s].wait = "timeout" /\ req[t].wait = "timeout"
         /\ req[s].response.code = 200 /\ req[t].response.code = 200)
        => req[s].response.body = req[t].response.body

\* C3 as amended: the placeholder of a timed-out flashcard or quiz request is
\* one fixed list; the placeholder of a timed-out summary request is a fixed
\* template that carries two numbers, the number of words of the text that is
\* stored when the timeout is handled and the stored page count.
C3_PlaceholderContent ==
    [][\A s \in Slots :
         (/\ WaitEnds(s, "timeout")
          /\ req[s].kind \in StaticPayloadKinds
          /\ req'[s].response.code = 200)
         => CASE req[s].kind = "flashcards" ->
                   req'[s].response.body =
                       [flashcards |-> <<BasicCard1>>, count |-> 1,
                        status |-> "success"]
              [] req[s].kind = "quiz" ->
                   req'[s].response.body =
                       [quiz |-> <<BasicQuestion1>>, count |-> 1,
                        status |-> "success"]
              [] req[s].kind = "summary" ->
                   /\ req[s].session_id \in DOMAIN study_sessions
                   /\ LET session == study_sessions[req[s].session_id]
                      IN  req'[s].response.body =
                            [summary |->
                               [kind |-> "basic", text |-> <<>>,
                                words |-> WordCount(session.text),
                                pages |-> session.processing_result.page_count],
                             status |-> "success"]]_vars

\* two timed-out summary requests were given different placeholders
C3_Witness ==
    \E s \in Slots, t \in Slots :
        /\ req[s].pc = "done" /\ req[t].pc = "done"
        /\ req[s].kind = "summary" /\ req[t].kind = "summary"
        /\ req[s].wait = "timeout" /\ req[t].wait = "timeout"
        /\ req[s].response.code = 200 /\ req[t].response.code = 200
        /\ req[s].response.body.summary.words # req[t].response.body.summary.words

\* C4: a discovery request that found its session ends as a success, and with
\* the empty list and the count 0 when one of its waits timed out or one of
\* its offloaded calls raised.
C4_DiscoveryAlwaysSucceeds ==
    \A s \in Slots :
        (/\ req[s].pc = "done"
         /\ req[s].kind \in EmptyListKinds
         /\ req[s].calls # <<>>)
        => /\ req[s].response.code = 200
           /\ req[s].wait \in {"timeout", "raised"}
                => /\ req[s].response.body.items = <<>>
                   /\ req[s].response.body.count = 0

\* a discovery request whose find call raised in the second stage ended with
\* the empty list
C4_Witness ==
    \E s \in Slots :
        /\ req[s].pc = "done" /\ req[s].kind = "videos"
        /\ Len(req[s].calls) = 2 /\ req[s].wait = "raised"
        /\ req[s].response.code = 200 /\ req[s].response.body.count = 0

\* C5: an upload or a question whose wait timed out ends with 408, and the
\* step that handles the timeout of an upload leaves the store as it was.
C5_TimeoutIs408 ==
    [][\A s \in Slots :
         (WaitEnds(s, "timeout") /\ req[s].kind \in FailKinds)
         => /\ req'[s].pc = "done"
            /\ req'[s].response.code = 408
            /\ study_sessions' = study_sessions]_vars

\* an upload timed out with 408 and a question timed out with 408
C5_Witness ==
    \E s \in Slots, t \in Slots :
        /\ req[s].pc = "done" /\ req[s].kind = "upload"
        /\ req[s].wait = "timeout" /\ req[s].response.code = 408
        /\ req[t].pc = "done" /\ req[t].kind = "question"
        /\ req[t].wait = "timeout" /\ req[t].response.code = 408
        /\ "default" \notin DOMAIN study_sessions

\* C6: an upload whose payload is larger than 50 MB is rejected with the
\* 400 size error, with no call to the extraction, no temporary file and the
\* store as it was; a payload of exactly 50 MB goes on to the extraction,
\* unless its temporary file cannot be written.
C6_TooLargeRejected ==
    [][\A s \in Slots :
         (req[s].pc = "read" /\ req'[s] # req[s])
         => /\ req'[s].file_size > 52428800
                => /\ req'[s].pc = "done"
                   /\ req'[s].response =
                        [code |-> 400,
                         body |-> [detail |-> "File too large. Maximum size is 50MB"]]
                   /\ req'[s].calls = <<>>
                   /\ temp_files' = temp_files
                   /\ study_sessions' = study_sessions
            /\ req'[s].file_size = 52428800
                => \/ /\ req'[s].pc = "wait"
                      /\ Len(req'[s].calls) = 1
                   \/ /\ req'[s].pc = "done"
                      /\ req'[s].response.code = 500
                      /\ req'[s].temp_file_path = 0]_vars

\* an upload of 50 MB + 1 byte was rejected with 400 while a session stored
\* by an earlier upload of exactly 50 MB is still in the store
C6_Witness ==
    \E s \in Slots :
        /\ req[s].pc = "done" /\ req[s].kind = "upload"
        /\ req[s].file_size = 52428801
        /\ req[s].response.code = 400 /\ req[s].calls = <<>>
        /\ "default" \in DOMAIN study_sessions
        /\ study_sessions["default"].file_info.mb_hundredths = 5000

\* the file names that end in .pdf, whatever the case of the letters
PdfSuffixes ==
    { <<".", p, d, f>> : p \in {"p", "P"}, d \in {"d", "D"}, f \in {"f", "F"} }
HasPdfSuffix(name) ==
    /\ Len(name) >= 4
    /\ <<name[Len(name) - 3], name[Len(name) - 2], name[Len(name) - 1],
         name[Len(name)]>> \in PdfSuffixes

\* C7: an upload without a file name, or with a name that does not end in
\* .pdf in any case of the letters, is rejected with 400 at once: no call to
\* the extraction, no temporary file, the store as it was.  A name that ends
\* in .pdf in some case of the letters goes on to the read of the payload.
C7_BadNameRejected ==
    [][\A s \in Slots :
         (Begins(s) /\ req'[s].kind = "upload")
         => IF /\ req'[s].filename.present
               /\ req'[s].filename.name # <<>>
               /\ HasPdfSuffix(req'[s].filename.name)
            THEN req'[s].pc = "read"
            ELSE /\ req'[s].pc = "done"
                 /\ req'[s].response.code = 400
                 /\ req'[s].calls = <<>>
                 /\ temp_files' = temp_files
                 /\ study_sessions' = study_sessions]_vars

\* an upload named a.txt was rejected with 400 and without a call, and an
\* upload named a.Pdf has come to its extraction
C7_Witness ==
    \E s \in Slots, t \in Slots :
        /\ req[s].pc = "done" /\ req[s].kind = "upload"
        /\ req[s].filename = Named(<<"a", ".", "t", "x", "t">>)
        /\ req[s].response.code = 400 /\ req[s].calls = <<>>
        /\ req[t].kind = "upload" /\ req[t].pc = "wait"
        /\ req[t].filename = Named(<<"a", ".", "P", "d", "f">>)

\* C8: an upload whose extraction returned without the error status and with
\* fewer than 10 words is rejected with 422 and leaves the store as it was;
\* every stored session has at least 10 words in its extraction result.
C8_TooFewWordsRejected ==
    [][/\ \A s \in Slots :
            (/\ WaitEnds(s, "returned")
             /\ req[s].kind = "upload"
             /\ req'[s].result.status # "error"
             /\ req'[s].result.word_count < 10)
            => /\ req'[s].response.code = 422
               /\ study_sessions' = study_sessions
       /\ \A id \in DOMAIN study_sessions' :
            study_sessions'[id].processing_result.word_count >= 10]_vars

\* an upload of nine words was rejected with 422 while the session of an
\* earlier upload of exactly ten words is still stored
C8_Witness ==
    \E s \in Slots :
        /\ req[s].pc = "done" /\ req[s].kind = "upload"
        /\ req[s].result.status = "success" /\ req[s].result.word_count = 9
        /\ req[s].response.code = 422
        /\ "default" \in DOMAIN study_sessions
        /\ study_sessions["default"].processing_result.word_count = 10

\* C9: the text a handler forwards to its collaborator is the first B
\* characters of the input text followed by "..." when the input text has
\* more than B characters, and the input text itself otherwise, where B is
\* 8000 for the summary, 6000 for flashcards, quiz and question, 4000 for
\* research and 3000 for videos and web resources.
C9_Truncation ==
    [][\A s \in Slots :
         (/\ Begins(s)
          /\ req'[s].pc = "wait"
          /\ req'[s].kind \in SessionKinds \cup {"question"})
         => LET t == IF req'[s].kind = "question"
                     THEN req'[s].document_text
                     ELSE study_sessions[req'[s].session_id].text
                B == CASE req'[s].kind = "summary" -> 8000
                       [] req'[s].kind \in {"flashcards", "quiz", "question"} -> 6000
                       [] req'[s].kind = "research" -> 4000
                       [] req'[s].kind \in {"videos", "resources"} -> 3000
                f == req'[s].calls[1].text
            IN  /\ Len(req'[s].calls) = 1
                /\ Len(f) <= B + 3
                /\ IF Len(t) > B
                   THEN /\ Len(f) = B + 3
                        /\ SubSeq(f, 1, B) = SubSeq(t, 1, B)
                        /\ SubSeq(f, B + 1, B + 3) = <<".", ".", ".">>
                   ELSE f = t]_vars

\* a summary waits on a text of 8001 characters cut to 8003, while a video
\* discovery waits on the whole of a text of exactly 3000 characters
C9_Witness ==
    \E s \in Slots, t \in Slots :
        /\ req[s].pc = "wait" /\ req[s].kind = "summary"
        /\ Len(req[s].calls[1].text) = 8003
        /\ req[t].pc = "wait" /\ req[t].kind = "videos"
        /\ Len(req[t].calls[1].text) = 3000

\* C10: with the session present, a flashcard request hands
\* min(max(num_cards, 1), 20) to its collaborator and a quiz request
\* min(max(num_questions, 1), 15), whatever the requested count; and no
\* flashcard or quiz request ends with a status other than 200, 404 or 500.
C10_GenerationCountClamped ==
    [][\A s \in Slots :
         /\ (/\ Begins(s)
             /\ req'[s].kind \in {"flashcards", "quiz"}
             /\ req'[s].session_id \in DOMAIN study_sessions)
            => LET n == req'[s].count
                   hi == IF req'[s].kind = "flashcards" THEN 20 ELSE 15
               IN  /\ req'[s].pc = "wait"
                   /\ Len(req'[s].calls) = 1
                   /\ req'[s].calls[1].count =
                        IF n < 1 THEN 1 ELSE IF n > hi THEN hi ELSE n
         /\ (req'[s].kind \in {"flashcards", "quiz"} /\ req'[s].pc = "done")
            => req'[s].response.code \in {200, 404, 500}]_vars

\* a flashcard request for 50 cards waits on a call for 20, and a quiz
\* request for 0 questions has ended as a success after a call for 1
C10_Witness ==
    \E s \in Slots, t \in Slots :
        /\ req[s].kind = "flashcards" /\ req[s].pc = "wait"
        /\ req[s].count = 50 /\ req[s].calls[1].count = 20
        /\ req[t].kind = "quiz" /\ req[t].pc = "done"
        /\ req[t].count = 0 /\ req[t].response.code = 200
        /\ Len(req[t].calls) = 1 /\ req[t].calls[1].count = 1

\* the largest count a discovery hands to its collaborators
DiscoveryMax(kind) == IF kind = "videos" THEN 12 ELSE 15

\* C11: with the session present, a discovery request hands to each of its
\* collaborators that takes a count a count between 1 and the maximum of its
\* kind (15 papers, 12 videos, 15 resources): the requested count when it is
\* in that range, 1 when it is 0 or negative, the maximum when it is larger.
C11_DiscoveryCountClamped ==
    \A s \in Slots :
        (req[s].kind \in EmptyListKinds /\ req[s].calls # <<>>)
        => LET n == req[s].count
               hi == DiscoveryMax(req[s].kind)
               c == req[s].calls[Len(req[s].calls)]
           IN  c.collaborator \in {"find_papers", "find_videos", "find_resources"}
               => /\ c.count \in 1..hi
                  /\ c.count = IF n < 1 THEN 1 ELSE IF n > hi THEN hi ELSE n

\* the list of items a flashcard or quiz success carries
ItemsOf(r) ==
    IF r.kind = "flashcards" THEN r.response.body.flashcards
    ELSE r.response.body.quiz

\* C12: a flashcard or quiz request that ended as a success carries no more
\* items than the clamped count it handed to its collaborator, and so at most
\* 20 flashcards and at most 15 questions, whatever list the collaborator
\* returned and also when the response is a fallback.
C12_ItemsWithinCount ==
    \A s \in Slots :
        (/\ req[s].pc = "done"
         /\ req[s].kind \in {"flashcards", "quiz"}
         /\ req[s].response.code = 200)
        => /\ Len(ItemsOf(req[s])) <= req[s].calls[1].count
           /\ Len(ItemsOf(req[s])) <= IF req[s].kind = "flashcards" THEN 20 ELSE 15

\* the characters of a string
Chars(str) == { str[i] : i \in 1..Len(str) }
\* the string is empty or has only blanks, tabs and newlines
WhitespaceOnly(str) == Chars(str) \subseteq {" ", "\t", "\n"}

\* C13: a question request whose question, or whose document text, is empty
\* or has whitespace only has ended with 400 and has made no call to the
\* completion service; a request with neither goes on to the call.
C13_BlankQuestionRejected ==
    \A s \in Slots :
        req[s].kind = "question"
        => IF WhitespaceOnly(req[s].question) \/ WhitespaceOnly(req[s].document_text)
           THEN /\ req[s].pc = "done"
                /\ req[s].response.code = 400
                /\ req[s].calls = <<>>
           ELSE /\ Len(req[s].calls) = 1
                /\ req[s].calls[1].collaborator = "chat_completion"

\* a question with a whitespace-only document text was rejected with 400 and
\* without a call, and so was a whitespace-only question about a document,
\* after the wait of another question had timed out
C13_Witness ==
    \E s \in Slots, t \in Slots :
        /\ req[s].kind = "question" /\ req[s].pc = "done"
        /\ req[s].question = <<" ", "w", "h", "y", " ">>
        /\ req[s].document_text = <<" ", "\t">>
        /\ req[s].response.code = 400 /\ req[s].calls = <<>>
        /\ req[t].kind = "question" /\ req[t].pc = "done"
        /\ req[t].question = <<"\t", "\n">>
        /\ req[t].document_text = <<"d", "o", "c">>
        /\ req[t].response.code = 400 /\ req[t].calls = <<>>
        /\ abandoned = 1

\* this step ends the request of slot s after its last wait_for returned
ReturnEnds(s) == WaitEnds(s, "returned") /\ req'[s].pc = "done"

\* the returned value reports a failure of the collaborator: a text that
\* starts with the error mark, an extraction result with the error status or
\* with too few words to be readable
ReportsFailure(r) ==
    CASE r.kind \in {"summary", "question"} -> r.result # <<>> /\ r.result[1] = "X"
      [] r.kind = "upload" -> r.result.status = "error" \/ r.result.word_count < 10
      [] OTHER -> FALSE

\* C14 as stated: a request whose last offloaded call returned in time, with
\* a value that reports no failure, ends as a success that carries the
\* returned value as it is: the text of the summary or answer, the list of
\* flashcards, questions, papers, videos or resources (the empty list too),
\* the figures of the extraction result.
C14_ReturnedUnchanged ==
    [][\A s \in Slots :
         (ReturnEnds(s) /\ ~ReportsFailure(req'[s]))
         => LET r == req'[s]
                body == r.response.body
            IN  /\ r.response.code = 200
                /\ CASE r.kind = "summary" -> body.summary.text = r.result
                     [] r.kind = "question" -> body.answer = r.result
                     [] r.kind = "flashcards" -> body.flashcards = r.result
                     [] r.kind = "quiz" -> body.quiz = r.result
                     [] r.kind \in EmptyListKinds -> body.items = r.result
                     [] r.kind = "upload" ->
                          /\ body.status = r.result.status
                          /\ body.word_count = r.result.word_count
                          /\ body.page_count = r.result.page_count]_vars

\* C14 as amended: a request whose last offloaded call returned in time ends
\* as a success that carries the returned value as it is, except that
\*  - an empty list of flashcards or questions is replaced by the fallback of
\*    two fixed items;
\*  - a summary or an answer that starts with the error mark ends with 500;
\*  - an extraction result with the error status ends with 400, one with
\*    fewer than 10 words with 422, and any other is answered with its
\*    status, message, word count, page count and methods, not its text.
C14_ReturnedResult ==
    [][\A s \in Slots :
         ReturnEnds(s)
         => LET r == req'[s]
                body == r.response.body
                code == r.response.code
            IN  CASE r.kind \in {"summary", "question"} ->
                       IF r.result # <<>> /\ r.result[1] = "X"
                       THEN code = 500
                       ELSE /\ code = 200
                            /\ IF r.kind = "summary"
                               THEN body.summary.kind = "agent"
                                    /\ body.summary.text = r.result
                               ELSE body.answer = r.result
                  [] r.kind = "flashcards" ->
                       /\ code = 200
                       /\ body.flashcards = IF r.result = <<>>
                                            THEN <<BasicCard1, BasicCard2>>
                                            ELSE r.result
                       /\ body.count = IF r.result = <<>> THEN 2 ELSE Len(r.result)
                  [] r.kind = "quiz" ->
                       /\ code = 200
                       /\ body.quiz = IF r.result = <<>>
                                      THEN <<BasicQuestion1, BasicQuestion2>>
                                      ELSE r.result
                       /\ body.count = IF r.result = <<>> THEN 2 ELSE Len(r.result)
                  [] r.kind \in EmptyListKinds ->
                       /\ code = 200
                       /\ body.items = r.result
                       /\ body.count = Len(r.result)
                  [] r.kind = "upload" ->
                       IF r.result.status = "error" THEN code = 400
                       ELSE IF r.result.word_count < 10 THEN code = 422
                       ELSE /\ code = 200
                            /\ body = [status |-> r.result.status,
                                       message |-> r.result.message,
                                       word_count |-> r.result.word_count,
                                       page_count |-> r.result.page_count,
                                       methods_used |-> r.result.methods_used]]_vars

\* a flashcard request whose collaborator returned the empty list in time
\* was answered with the two fallback cards, and a quiz request whose
\* collaborator returned two questions was answered with those two
C14_Witness ==
    \E s \in Slots, t \in Slots :
        /\ req[s].kind = "flashcards" /\ req[s].pc = "done"
        /\ req[s].wait = "returned" /\ req[s].result = <<>>
        /\ req[s].response.code = 200 /\ req[s].response.body.count = 2
        /\ req[t].kind = "quiz" /\ req[t].pc = "done"
        /\ req[t].wait = "returned" /\ Len(req[t].result) = 2
        /\ req[t].response.code = 200
        /\ req[t].response.body.quiz = req[t].result

\* the session a successful upload stores: lines 229-234
SessionOf(r) ==
    [text |-> r.result.text,
     file_info |-> FileInfo(r.filename.name, r.file_size),
     processing_result |-> r.result,
     filename |-> r.filename.name]

\* this step is the end of an upload in slot s that succeeded
UploadSucceeds(s) ==
    /\ ReturnEnds(s)
    /\ req[s].kind = "upload"
    /\ req'[s].response.code = 200

\* this step is a clear-session request in slot s (one that repeats the
\* last request of the slot leaves the record of the slot as it was)
Clears(s) ==
    /\ Free(s)
    /\ req'[s].kind = "clear" /\ req'[s].pc = "done"
    /\ \A t \in Slots \ {s} : req'[t] = req[t]
    /\ abandoned' = abandoned

\* C15: the store is empty at the start, and a step changes it only in one
\* of two ways: an upload ends as a success and the session under its id
\* becomes the text and metadata of its extraction result, or a clear-session
\* request removes the session of its id.  No other step (session-info,
\* generation, discovery, question, a rejected or timed-out or failed upload,
\* an abandoned worker that finishes) changes the store.  So a session is in
\* the store only after a successful upload with no clear since, and it is
\* that of the most recent successful upload.
C15_SessionLifecycle ==
    /\ study_sessions = <<>>
    /\ [][\/ study_sessions' = study_sessions
          \/ \E s \in Slots :
                /\ UploadSucceeds(s)
                /\ DOMAIN study_sessions' = DOMAIN study_sessions \cup {"default"}
                /\ study_sessions'["default"] = SessionOf(req'[s])
                /\ \A id \in DOMAIN study_sessions \ {"default"} :
                      study_sessions'[id] = study_sessions[id]
          \/ \E s \in Slots :
                /\ Clears(s)
                /\ req'[s].response.body.status = "success"
                /\ DOMAIN study_sessions' = DOMAIN study_sessions \ {req'[s].session_id}
                /\ \A id \in DOMAIN study_sessions' :
                      study_sessions'[id] = study_sessions[id]]_vars

\* the stored session is that of the finished successful upload of one slot,
\* while the other slot holds an upload that timed out after a summary had
\* been answered from the stored session
C15_Witness ==
    \E s \in Slots, t \in Slots :
        /\ req[s].kind = "upload" /\ req[s].pc = "done"
        /\ req[s].response.code = 200
        /\ "default" \in DOMAIN study_sessions
        /\ study_sessions["default"].processing_result = req[s].result
        /\ study_sessions["default"].text = req[s].result.text
        /\ req[t].kind = "upload" /\ req[t].pc = "done"
        /\ req[t].wait = "timeout" /\ req[t].response.code = 408

\* the clear-session step of slot s did what it has to do
ClearedRight(s) ==
    LET id == req'[s].session_id
    IN  IF id \in DOMAIN study_sessions
        THEN /\ DOMAIN study_sessions' = DOMAIN study_sessions \ {id}
             /\ \A k \in DOMAIN study_sessions' : study_sessions'[k] = study_sessions[k]
             /\ req'[s].response =
                  [code |-> 200, body |-> [message |-> "Session cleared successfully",
                                           status |-> "success"]]
        ELSE /\ study_sessions' = study_sessions
             /\ req'[s].response =
                  [code |-> 200, body |-> [message |-> "No active session found",
                                           status |-> "info"]]

\* C16: a clear-session request removes the session of its id and reports
\* success when the id is in the store, and leaves the store as it is and
\* reports that no session was found when it is not.  An id that is not in
\* the store comes into it only by an upload that succeeds, and as long as it
\* is not in the store a session-info request for it is answered inactive
\* and a generation or discovery request for it with 404.  An upload that
\* succeeds leaves under its id the session of its own result, whatever was
\* stored before.
C16_ClearSession ==
    [][/\ \A s \in Slots : Clears(s) => \E t \in Slots : Clears(t) /\ ClearedRight(t)
       /\ \A id \in SessionIds :
            (id \notin DOMAIN study_sessions /\ id \in DOMAIN study_sessions')
            => \E s \in Slots : UploadSucceeds(s)
       /\ \A s \in Slots :
            (Begins(s) /\ req'[s].session_id \notin DOMAIN study_sessions)
            => /\ req'[s].kind = "session-info"
                    => req'[s].response = [code |-> 200, body |-> [active |-> FALSE]]
               /\ req'[s].kind \in SessionKinds => req'[s].response.code = 404
       /\ \A s \in Slots :
            UploadSucceeds(s)
            => /\ "default" \in DOMAIN study_sessions'
               /\ study_sessions'["default"] = SessionOf(req'[s])]_vars

\* a clear-session request has removed the stored session and reported
\* success, and a summary request made after it was answered with 404
C16_Witness ==
    \E s \in Slots, t \in Slots :
        /\ req[s].kind = "clear" /\ req[s].pc = "done"
        /\ req[s].session_id = "default"
        /\ req[s].response.body.status = "success"
        /\ "default" \notin DOMAIN study_sessions
        /\ req[t].kind = "summary" /\ req[t].pc = "done"
        /\ req[t].session_id = "default"
        /\ req[t].response.code = 404

\* the metadata a session-info request for id is to be given from store
InfoOf(store, id) ==
    IF id \in DOMAIN store
    THEN [active |-> TRUE,
          file_info |-> store[id].file_info,
          filename |-> store[id].filename,
          word_count |-> store[id].processing_result.word_count,
          page_count |-> store[id].processing_result.page_count,
          methods_used |-> store[id].processing_result.methods_used]
    ELSE [active |-> FALSE]

\* C17: a session-info request leaves the store as it is and is answered
\* with the metadata of the session stored under its id (inactive when there
\* is none); and a step that is neither the end of a successful upload nor a
\* clear-session, such as any step of a generation, a discovery or a
\* question, a timeout among them, leaves the answer of a session-info
\* request for every id as it is.  So two session-info requests for one id
\* with no successful upload and no clear-session between them are answered
\* alike.
C17_SessionInfoReadOnly ==
    [][/\ \A s \in Slots :
            (Begins(s) /\ req'[s].kind = "session-info")
            => /\ study_sessions' = study_sessions
               /\ req'[s].pc = "done"
               /\ req'[s].response =
                    [code |-> 200,
                     body |-> InfoOf(study_sessions, req'[s].session_id)]
       /\ (\A s \in Slots : ~UploadSucceeds(s) /\ ~Clears(s))
            => \A id \in SessionIds :
                  InfoOf(study_sessions', id) = InfoOf(study_sessions, id)]_vars

\* both slots hold a session-info request for the stored session, answered
\* alike and as active, after the wait of some request has timed out
C17_Witness ==
    \E s \in Slots, t \in Slots :
        /\ s # t
        /\ req[s].kind = "session-info" /\ req[t].kind = "session-info"
        /\ req[s].session_id = "default" /\ req[t].session_id = "default"
        /\ req[s].response.body.active /\ req[t].response.body = req[s].response.body
        /\ req[s].response.body.word_count = 15
        /\ "default" \in DOMAIN study_sessions
        /\ abandoned = 1

\* C18: the temporary file an upload has created is gone when the upload has
\* finished, however it finished (200, 400, 408, 422, 500); and an upload
\* that was rejected before the extraction (file name, size) has created
\* none.
C18_TempFileRemoved ==
    \A s \in Slots :
        (req[s].kind = "upload" /\ req[s].pc = "done")
        => /\ req[s].temp_file # 0 => req[s].temp_file \notin temp_files
           /\ (req[s].response.code = 400 /\ req[s].calls = <<>>)
                => req[s].temp_file = 0

\* C19: the step that handles the timeout of a wait ends the request with
\* its response, leaves its worker running, and for an upload leaves the
\* store as it is; the step in which an abandoned worker finishes changes no
\* request, no response, no temporary file and not the store; and while a
\* timed-out upload is the last request of its slot, the store changes only
\* by a clear-session or by the success of the upload of another slot.
C19_AbandonedWorkerDiscarded ==
    [][/\ \A s \in Slots :
            WaitEnds(s, "timeout")
            => /\ req'[s].pc = "done"
               /\ req'[s].response # NoResponse
               /\ abandoned' = abandoned + 1
               /\ req[s].kind = "upload" => study_sessions' = study_sessions
       /\ abandoned' < abandoned
            => /\ req' = req
               /\ study_sessions' = study_sessions
               /\ temp_files' = temp_files
       /\ \A s \in Slots :
            (/\ req[s].kind = "upload" /\ req[s].pc = "done"
             /\ req[s].wait = "timeout"
             /\ req'[s] = req[s]
             /\ study_sessions' # study_sessions)
            => \E t \in Slots \ {s} : UploadSucceeds(t) \/ Clears(t)]_vars

\* an upload has timed out with 408, its abandoned extraction has finished
\* since, and there is neither a session nor a temporary file
C19_Witness ==
    \E s \in Slots :
        /\ req[s].kind = "upload" /\ req[s].pc = "done"
        /\ req[s].wait = "timeout" /\ req[s].response.code = 408
        /\ abandoned = 0
        /\ "default" \notin DOMAIN study_sessions
        /\ temp_files = {}

\* the upload of slot s has finished as a success
Uploaded(s) ==
    req[s].kind = "upload" /\ req[s].pc = "done" /\ req[s].response.code = 200

\* C20: the step that ends an upload as a success leaves in the store, under
\* the id the uploads use, the session made of the file name, the size and
\* the extraction result of that upload and of nothing else, whatever another
\* upload stored before and whichever upload was begun first; and when every
\* slot holds an upload that succeeded, the stored session is wholly that of
\* one of them.
C20_LastWriteWins ==
    /\ [](((\A s \in Slots : Uploaded(s)) /\ "default" \in DOMAIN study_sessions)
            => \E s \in Slots : study_sessions["default"] = SessionOf(req[s]))
    /\ [][\A s \in Slots :
            UploadSucceeds(s)
            => /\ DOMAIN study_sessions' = {"default"}
               /\ study_sessions'["default"].text = req'[s].result.text
               /\ study_sessions'["default"].processing_result = req'[s].result
               /\ study_sessions'["default"].filename = req'[s].filename.name
               /\ study_sessions'["default"].file_info =
                    FileInfo(req'[s].filename.name, req'[s].file_size)]_vars

\* two uploads of different files, sizes and texts have both succeeded, and
\* the stored session is that of the upload of slot 2
C20_Witness ==
    /\ Uploaded(1) /\ Uploaded(2)
    /\ req[1].filename # req[2].filename
    /\ req[1].file_size # req[2].file_size
    /\ req[1].result # req[2].result
    /\ "default" \in DOMAIN study_sessions
    /\ study_sessions["default"] = SessionOf(req[2])
    /\ study_sessions["default"].filename = <<"a", ".", "P", "d", "f">>

\* the request of slot s is suspended in an await
Suspended(r) == r.pc \in {"read", "wait", "wait2"}

\* C21 as stated: a request suspends at most once, in the wait on its one
\* offloaded call: the step that resumes a suspended request ends it, a
\* request suspends nowhere but in that wait, and no request has handed more
\* than one call to a worker.
C21_OneSuspensionPoint ==
    [][\A s \in Slots :
         /\ Suspended(req'[s]) => req'[s].pc = "wait" /\ Len(req'[s].calls) = 1
         /\ (Suspended(req[s]) /\ req'[s] # req[s]) => req'[s].pc = "done"
         /\ Len(req'[s].calls) <= 1]_vars

\* C21 as amended: a summary, flashcard, quiz, research or question request
\* suspends once, in the wait on its one offloaded call; an upload suspends
\* twice, in the read of the payload and then in the wait on the extraction,
\* its one offloaded call; a video or resource discovery suspends twice, in
\* the wait on the keyword extraction and then in the wait on the find call,
\* two offloaded calls made one after the other; clear-session, session-info
\* and health never suspend.  A request suspends nowhere else.
C21_SuspensionPoints ==
    [][\A s \in Slots :
         LET r == req[s]
             n == req'[s]
             twoCalls == n.kind \in {"videos", "resources"}
         IN  /\ Begins(s)
                => /\ n.kind \in {"clear", "session-info", "health"}
                      => n.pc = "done"
                   /\ n.kind = "upload" => n.pc \in {"done", "read"}
                   /\ n.kind \in SessionKinds \cup {"question"}
                      => n.pc \in {"done", "wait"}
                   /\ Len(n.calls) = IF n.pc = "wait" THEN 1 ELSE 0
             /\ (Suspended(r) /\ n # r)
                => CASE r.pc = "read" ->
                          /\ n.pc \in {"done", "wait"}
                          /\ Len(n.calls) = IF n.pc = "wait" THEN 1 ELSE 0
                     [] r.pc = "wait" /\ twoCalls ->
                          /\ n.pc \in {"done", "wait2"}
                          /\ Len(n.calls) = IF n.pc = "wait2" THEN 2 ELSE 1
                     [] r.pc = "wait" /\ ~twoCalls ->
                          n.pc = "done" /\ n.calls = r.calls
                     [] r.pc = "wait2" ->
                          n.pc = "done" /\ n.calls = r.calls
             /\ n.pc = "read" => n.kind = "upload"
             /\ n.pc = "wait2" => twoCalls]_vars

\* a video discovery is suspended in its second wait with two calls handed
\* to workers, while an upload is suspended in its second await, the wait on
\* the extraction
C21_Witness ==
    \E s \in Slots, t \in Slots :
        /\ req[s].kind = "videos" /\ req[s].pc = "wait2"
        /\ Len(req[s].calls) = 2
        /\ req[s].calls[1].collaborator = "extract_smart_keywords_and_topic"
        /\ req[s].calls[2].collaborator = "find_videos"
        /\ req[t].kind = "upload" /\ req[t].pc = "wait"
        /\ Len(req[t].calls) = 1

\* the number of characters of the session text a handler forwards
Budget(kind) ==
    CASE kind = "summary" -> 8000
      [] kind \in {"flashcards", "quiz"} -> 6000
      [] kind = "research" -> 4000
      [] kind \in {"videos", "resources"} -> 3000

\* C22: a generation or discovery request that finds its session is
\* suspended, in the same step, in the wait on a call whose text is taken
\* from the text stored at that moment (the text itself, or its first
\* characters up to the budget of the kind and "..."); the text of that call
\* stays what it is for as long as the request waits, whatever is cleared or
\* uploaded meanwhile; a request that found its session is not answered
\* with 404 when its wait returns; and two requests of one kind whose last
\* wait returned the same value in time were given the same response,
\* whatever the store held when they ended.
C22_SnapshotAtCheck ==
    /\ [](\A s \in Slots, t \in Slots :
            (/\ req[s].pc = "done" /\ req[t].pc = "done"
             /\ req[s].kind \in SessionKinds /\ req[t].kind = req[s].kind
             /\ req[s].wait = "returned" /\ req[t].wait = "returned"
             /\ req[s].result = req[t].result)
            => req[s].response = req[t].response)
    /\ [][\A s \in Slots :
            /\ (/\ Begins(s)
                /\ req'[s].kind \in SessionKinds
                /\ req'[s].session_id \in DOMAIN study_sessions)
               => LET text == study_sessions[req'[s].session_id].text
                      B == Budget(req'[s].kind)
                  IN  /\ req'[s].pc = "wait"
                      /\ Len(req'[s].calls) = 1
                      /\ req'[s].calls[1].text =
                           IF Len(text) > B
                           THEN SubSeq(text, 1, B) \o <<".", ".", ".">>
                           ELSE text
            /\ (req[s].kind \in SessionKinds /\ req[s].pc \in {"wait", "wait2"})
               => /\ req'[s].calls # <<>>
                  /\ req'[s].calls[1] = req[s].calls[1]
                  /\ req'[s].wait = "returned" => req'[s].response.code # 404]_vars

\* a summary request waits on the text of the ten-word document it found,
\* while the store holds the fifteen-word document that the upload of the
\* other slot has stored since
C22_Witness ==
    \E s \in Slots, t \in Slots :
        /\ req[s].kind = "summary" /\ req[s].pc = "wait"
        /\ Len(req[s].calls[1].text) = 49
        /\ req[t].kind = "upload" /\ req[t].pc = "done"
        /\ req[t].response.code = 200
        /\ "default" \in DOMAIN study_sessions
        /\ study_sessions["default"].text = req[t].result.text
        /\ Len(study_sessions["default"].text) = 74

\* C23: the store never holds a session under another id than "default", so
\* it holds at most one session and health reports at most one; and a
\* request for another id has been answered with 404 without a call when it
\* is a generation or a discovery, as inactive when it is a session-info, and
\* with nothing to clear when it is a clear-session.
C23_SingleSlot ==
    /\ DOMAIN study_sessions \subseteq {"default"}
    /\ Cardinality(DOMAIN study_sessions) <= 1
    /\ \A s \in Slots :
         /\ (req[s].kind = "health" /\ req[s].pc = "done")
            => req[s].response.body.active_sessions \in {0, 1}
         /\ (req[s].pc # "idle" /\ req[s].session_id # "default")
            => /\ req[s].pc = "done"
               /\ req[s].kind \in SessionKinds
                  => req[s].response.code = 404 /\ req[s].calls = <<>>
               /\ req[s].kind = "session-info"
                  => req[s].response.body = [active |-> FALSE]
               /\ req[s].kind = "clear"
                  => req[s].response.body = [message |-> "No active session found",
                                             status |-> "info"]

\* with a session stored, health has reported one active session and a
\* research request for another id has been answered with 404
C23_Witness ==
    \E s \in Slots, t \in Slots :
        /\ req[s].kind = "health" /\ req[s].pc = "done"
        /\ req[s].response.body.active_sessions = 1
        /\ DOMAIN study_sessions = {"default"}
        /\ req[t].kind = "research" /\ req[t].pc = "done"
        /\ req[t].session_id = "other"
        /\ req[t].response.code = 404
====
